---- MODULE Spec2Model ----
(***************************************************************************)
(* discord_update (src/main.rs): locate an installed Discord, compare its  *)
(* version with the latest published one, download and extract the newer   *)
(* archive, and create a convenience symlink after a fresh install.        *)
(*                                                                         *)
(* One run of main() is a sequential walk over its external operations;   *)
(* pc is the position of main (or of update_discord /                      *)
(* create_home_bin_symlink, which main awaits inline).  The file system    *)
(* persists from one run to the next.                                      *)
(***************************************************************************)
EXTENDS Integers, FiniteSets, Sequences, TLC

\* ------------------------------------------------------------- bounds
\* Number of consecutive runs of the program that are explored.
MaxRuns == 2
\* Largest major version number that is explored.
MaxNum == 1
\* Number of pre-release tags, and of build tags, in the version strings whose
\* order is explored.
MaxTag == 2

\* ------------------------------------------------------------- versions
\* semver::Version. pre = 0 is a release; pre = k > 0 is the k-th pre-release
\* tag in precedence order (a pre-release orders before its release).
\* build = 0 is no build metadata; build = k > 0 is the k-th build tag in the
\* order of BuildMetadata.
VerB(ma, mi, pa, pr, bu) ==
    [major |-> ma, minor |-> mi, patch |-> pa, pre |-> pr, build |-> bu]

\* A version without build metadata.
Ver(ma, mi, pa, pr) == VerB(ma, mi, pa, pr, 0)

\* Version::new(0, 0, 0): the sentinel current version of a fresh install.
ZeroVersion == Ver(0, 0, 0, 0)

\* Value of a `let` binding that has not been assigned yet.
Unassigned == Ver(-1, -1, -1, 0)

\* Pre-release precedence: a pre-release ranks below the release, and two
\* pre-releases rank by their tags.
PreLess(a, b) == a.pre # 0 /\ (b.pre = 0 \/ a.pre < b.pre)

\* a < b in Version's Ord, which `>` in main uses: the derived lexicographic
\* order of (major, minor, patch, pre, build). Build metadata takes part in it:
\* no metadata orders first, then the tags in their order.
VersionLess(a, b) ==
    \/ a.major < b.major
    \/ a.major = b.major /\ a.minor < b.minor
    \/ a.major = b.major /\ a.minor = b.minor /\ a.patch < b.patch
    \/ a.major = b.major /\ a.minor = b.minor /\ a.patch = b.patch
         /\ PreLess(a, b)
    \/ a.major = b.major /\ a.minor = b.minor /\ a.patch = b.patch
         /\ a.pre = b.pre /\ a.build < b.build

\* ------------------------------------------------------------- version text
\* A version string is the sequence of its tokens: the three numbers, then
\* Hyphen and the pre-release tag if it has one, then Plus and the build tag if
\* it has one ("1.0.0-alpha+7" is << 1, 0, 0, Hyphen, k, Plus, j >>).
Hyphen == -1
Plus == -2

\* Display of a version, the string that DisplayFromStr reads back.
VersionText(v) ==
    << v.major, v.minor, v.patch >>
        \o (IF v.pre = 0 THEN << >> ELSE << Hyphen, v.pre >>)
        \o (IF v.build = 0 THEN << >> ELSE << Plus, v.build >>)

\* Position of the last token of the pre-release part of s (of the patch
\* number when s has none).
PreEnd(s) == IF Len(s) >= 5 /\ s[4] = Hyphen THEN 5 ELSE 3

\* Version::from_str on a valid version string (VersionPayload's
\* DisplayFromStr).
ParseVersion(s) ==
    VerB(s[1], s[2], s[3],
         IF PreEnd(s) = 5 THEN s[5] ELSE 0,
         IF Len(s) >= PreEnd(s) + 2 /\ s[PreEnd(s) + 1] = Plus
            THEN s[PreEnd(s) + 2] ELSE 0)

\* The versions that the remote endpoint and build_info.json can report.
VersionSet ==
    { Ver(ma, 0, 0, 0) : ma \in 0..MaxNum }
        \cup { Ver(0, 1, 0, 0), Ver(0, 0, 1, 0), Ver(0, 0, 0, 1) }

\* main: `if latest_version > current_version`.
NeedsUpdate(latest, current) == VersionLess(current, latest)

\* ------------------------------------------------------------- paths
\* default_discord_path(): <home>/bin/discord_bin/Discord/Discord.
DefaultPath == "~/bin/discord_bin/Discord/Discord"
\* A directory outside <home>/bin that `which discord` can resolve into.
OtherPath == "/opt/discord"
Paths == {DefaultPath, OtherPath}
NoPath == "unset"

\* Content of <path>/resources/build_info.json.
Info(k, v) == [kind |-> k, version |-> v]
MissingInfo == Info("missing", Unassigned)
GarbageInfo == Info("garbage", Unassigned)
Infos == {MissingInfo, GarbageInfo} \cup { Info("ok", v) : v \in VersionSet }

\* What the archive of version v can put at resources/build_info.json.
ArchiveInfos(v) == {Info("ok", v), GarbageInfo}

\* ------------------------------------------------------------- bookkeeping
\* The operations of one run, in program order.
OpOrder ==
    << "default_path", "locate", "println_fallback", "println_found",
       "fetch_latest", "try_exists", "read_installed", "println_latest",
       "println_current", "compare", "println_update", "println_noupdate",
       "tempdir", "request", "file_create", "copy", "create_dir", "tar",
       "symlink_target", "mkdir_bin", "symlink" >>
OpNames == { OpOrder[i] : i \in 1..Len(OpOrder) }
OpPosition == [op \in OpNames |-> CHOOSE i \in 1..Len(OpOrder) : OpOrder[i] = op]
OpIndex(op) == OpPosition[op]

VARIABLES
    pc,              \* position of main
    run,             \* index of the current run
    homeSet,         \* env::var("HOME") is Ok
    install_fresh,   \* main: let mut install_fresh
    install_path,    \* main: let install_path
    latest_version,  \* main: let latest_version
    current_version, \* main: let current_version
    dirExists,       \* file system: directory exists, per path
    buildInfo,       \* file system: resources/build_info.json, per path
    binDirExists,    \* file system: <home>/bin exists
    linkAt,          \* file system: what <home>/bin/discord is
    tempDir,         \* file system: the temporary directory of update_discord
    calls,           \* history: number of attempts of each operation this run
    outcome,         \* history: result of each operation this run
    pathExisted,     \* history: what try_exists observed
    touched,         \* history: paths created or written by this run
    envRemoved,      \* history: the install was removed behind the run's back
    texts,           \* the version strings of the two payloads being compared
    brokenBy,        \* history: paths a failed fresh extraction left unreadable
    applied          \* history: the update the previous run applied, if any

vars == << pc, run, homeSet, install_fresh, install_path, latest_version,
           current_version, dirExists, buildInfo, binDirExists, linkAt,
           tempDir, calls, outcome, pathExisted, touched, envRemoved, texts,
           brokenBy, applied >>

locals == << install_fresh, install_path, latest_version, current_version >>
fs == << dirExists, buildInfo, binDirExists, linkAt, tempDir >>

\* Record one attempt of op and its result.
Called(op, res) ==
    /\ calls' = [calls EXCEPT ![op] = @ + 1]
    /\ outcome' = [outcome EXCEPT ![op] = res]

\* The `?` operator: the error e of op is returned from main.
Fail(op, e) ==
    /\ pc' = "Failed"
    /\ Called(op, e)

\* op was attempted in this run and returned an error.
Failed(op) == outcome[op] \notin {"none", "ok"}

\* No payload text is under comparison.
NoTexts == << << >>, << >> >>

\* The previous run applied no update (or there is no previous run).
NoApplied == [path |-> NoPath, version |-> Unassigned]

\* State of the locals and histories at the start of a run of main.
RunStart ==
    /\ pc' = "default_path"
    /\ install_fresh' = FALSE
    /\ install_path' = NoPath
    /\ latest_version' = Unassigned
    /\ current_version' = Unassigned
    /\ tempDir' = "absent"
    /\ calls' = [op \in OpNames |-> 0]
    /\ outcome' = [op \in OpNames |-> "none"]
    /\ pathExisted' = "unknown"
    /\ touched' = {}
    /\ envRemoved' = FALSE

Init ==
    /\ pc = "default_path"
    /\ run = 1
    /\ homeSet \in BOOLEAN
    /\ install_fresh = FALSE
    /\ install_path = NoPath
    /\ latest_version = Unassigned
    /\ current_version = Unassigned
    /\ dirExists \in [Paths -> BOOLEAN]
    /\ buildInfo \in [Paths -> Infos]
    /\ \A p \in Paths : ~dirExists[p] => buildInfo[p] = MissingInfo
    /\ binDirExists \in BOOLEAN
    /\ dirExists[DefaultPath] => binDirExists
    /\ linkAt \in {"none", DefaultPath, OtherPath}
    /\ linkAt # "none" => binDirExists
    /\ tempDir = "absent"
    /\ calls = [op \in OpNames |-> 0]
    /\ outcome = [op \in OpNames |-> "none"]
    /\ pathExisted = "unknown"
    /\ touched = {}
    /\ envRemoved = FALSE
    /\ texts = NoTexts
    /\ brokenBy = {}
    /\ applied = NoApplied

\* ------------------------------------------------------------- main
\* Faulty variant of ResolveDefault: the default path is resolved lazily, only
\* where it is needed, so main goes on to locate without reading HOME.
ResolveDefaultLazily ==
    /\ pc = "default_path"
    /\ pc' = "locate"
    /\ Called("default_path", "ok")
    /\ UNCHANGED << texts, brokenBy, applied, run, homeSet, locals, fs, pathExisted, touched, envRemoved >>

\* main:150  let default_install_path = default_discord_path()?;
ResolveDefault ==
    /\ pc = "default_path"
    /\ IF homeSet
         THEN pc' = "locate" /\ Called("default_path", "ok")
         ELSE Fail("default_path", "home_unset")
    /\ UNCHANGED << texts, brokenBy, applied, run, homeSet, locals, fs, pathExisted, touched, envRemoved >>

\* The ways locate_installed_discord fails: the script exits non-zero,
\* canonicalize fails, or the canonical path has no parent.
LocateErrors == {"script_failed", "canonicalize_failed", "no_parent"}

\* Faulty variant of Locate: the error of locate_installed_discord is propagated with
\* `?` instead of being absorbed by unwrap_or_else.
LocatePropagating ==
    /\ pc = "locate"
    /\ \/ \E p \in Paths :
            /\ dirExists[p]
            /\ install_path' = p
            /\ pc' = "println_found"
            /\ Called("locate", "ok")
       \/ \E e \in LocateErrors :
            /\ install_path' = install_path
            /\ Fail("locate", e)
    /\ UNCHANGED << texts, brokenBy, applied, run, homeSet, install_fresh, latest_version, current_version,
                    fs, pathExisted, touched, envRemoved >>

\* main:151  locate_installed_discord().await: Ok(parent of the canonical
\* binary, a directory that exists) or Err, which unwrap_or_else absorbs; its
\* closure takes the error as `|_|` and drops it.
Locate ==
    /\ pc = "locate"
    /\ \/ \E p \in Paths :
            /\ dirExists[p]
            /\ install_path' = p
            /\ pc' = "println_found"
            /\ Called("locate", "ok")
       \/ \E e \in LocateErrors :
            /\ install_path' = install_path
            /\ pc' = "println_fallback"
            /\ Called("locate", "err")
    /\ UNCHANGED << texts, brokenBy, applied, run, homeSet, install_fresh, latest_version, current_version,
                    fs, pathExisted, touched, envRemoved >>

\* main:152-154  the fallback closure: println(..).unwrap(), then the default
\* path is the install path. A failed println panics.
PrintlnFallback ==
    /\ pc = "println_fallback"
    /\ \E ok \in BOOLEAN :
         IF ok
           THEN /\ install_path' = DefaultPath
                /\ pc' = "println_found"
                /\ Called("println_fallback", "ok")
           ELSE /\ install_path' = install_path
                /\ Fail("println_fallback", "panic")
    /\ UNCHANGED << texts, brokenBy, applied, run, homeSet, install_fresh, latest_version, current_version,
                    fs, pathExisted, touched, envRemoved >>

\* main:156-159  prog.println("Found discord install at ..")?;
PrintlnFound ==
    /\ pc = "println_found"
    /\ \E ok \in BOOLEAN :
         IF ok
           THEN pc' = "fetch_latest" /\ Called("println_found", "ok")
           ELSE Fail("println_found", "io")
    /\ UNCHANGED << texts, brokenBy, applied, run, homeSet, locals, fs, pathExisted, touched, envRemoved >>

\* The install directory found by locate is removed by someone else before
\* main:163 looks at it (the program takes no lock on it).
EnvRemoveInstall ==
    /\ pc \in {"println_found", "fetch_latest", "try_exists"}
    /\ outcome["locate"] = "ok"
    /\ ~envRemoved
    /\ dirExists[install_path]
    /\ dirExists' = [dirExists EXCEPT ![install_path] = FALSE]
    /\ buildInfo' = [buildInfo EXCEPT ![install_path] = MissingInfo]
    /\ envRemoved' = TRUE
    /\ brokenBy' = brokenBy \ {install_path}
    /\ UNCHANGED << texts, applied, pc, run, homeSet, locals, binDirExists, linkAt, tempDir,
                    calls, outcome, pathExisted, touched >>

\* The ways get_latest_discord_version fails: the request, or the payload.
FetchErrors == {"network", "parse"}

\* main:162  let latest_version = get_latest_discord_version().await?;
FetchLatest ==
    /\ pc = "fetch_latest"
    /\ \/ \E v \in VersionSet :
            /\ latest_version' = v
            /\ pc' = "try_exists"
            /\ Called("fetch_latest", "ok")
       \/ \E e \in FetchErrors :
            /\ latest_version' = latest_version
            /\ Fail("fetch_latest", e)
    /\ UNCHANGED << texts, brokenBy, applied, run, homeSet, install_fresh, install_path, current_version,
                    fs, pathExisted, touched, envRemoved >>

\* Faulty variant of FreshWhenAbsent: install_fresh is set whatever try_exists
\* returned.
FreshAlways(exists) == TRUE

\* Faulty variant of FreshWhenAbsent: install_fresh is never set.
FreshNever(exists) == FALSE

\* main:163-168  the else branch: install_fresh = true exactly when the path
\* does not exist.
FreshWhenAbsent(exists) == ~exists

\* main:163  tokio::fs::try_exists(&install_path).await? and the else branch
\* (166-167): install_fresh = true; Version::new(0, 0, 0).
TryExists ==
    /\ pc = "try_exists"
    /\ \E ok \in BOOLEAN :
         IF ~ok
           THEN /\ Fail("try_exists", "io")
                /\ UNCHANGED << install_fresh, current_version, pathExisted >>
           ELSE /\ Called("try_exists", "ok")
                /\ pathExisted' = IF dirExists[install_path] THEN "yes" ELSE "no"
                /\ install_fresh' = FreshWhenAbsent(dirExists[install_path])
                /\ IF dirExists[install_path]
                     THEN pc' = "read_installed" /\ current_version' = current_version
                     ELSE pc' = "println_latest" /\ current_version' = ZeroVersion
    /\ UNCHANGED << texts, brokenBy, applied, run, homeSet, install_path, latest_version, fs, touched,
                    envRemoved >>

\* Faulty variant of ReadInstalled: an unreadable build_info.json is absorbed and the
\* install is treated as version 0.0.0.
ReadInstalledLenient ==
    /\ pc = "read_installed"
    /\ IF buildInfo[install_path].kind = "ok"
         THEN /\ current_version' = buildInfo[install_path].version
              /\ Called("read_installed", "ok")
         ELSE /\ current_version' = ZeroVersion
              /\ Called("read_installed", buildInfo[install_path].kind)
    /\ pc' = "println_latest"
    /\ UNCHANGED << texts, brokenBy, applied, run, homeSet, install_fresh, install_path, latest_version,
                    fs, pathExisted, touched, envRemoved >>

\* Faulty variant of ReadInstalled: an install whose build_info.json cannot be
\* read is treated as a fresh install and installed again.
ReadInstalledAsFresh ==
    /\ pc = "read_installed"
    /\ IF buildInfo[install_path].kind = "ok"
         THEN /\ current_version' = buildInfo[install_path].version
              /\ install_fresh' = install_fresh
         ELSE /\ current_version' = ZeroVersion
              /\ install_fresh' = TRUE
    /\ pc' = "println_latest"
    /\ Called("read_installed", "ok")
    /\ UNCHANGED << texts, brokenBy, applied, run, homeSet, install_path,
                    latest_version, fs, pathExisted, touched, envRemoved >>

\* main:164  get_installed_version(&install_path).await?  (58-63): read
\* resources/build_info.json and parse it.
ReadInstalled ==
    /\ pc = "read_installed"
    /\ IF buildInfo[install_path].kind = "ok"
         THEN /\ current_version' = buildInfo[install_path].version
              /\ pc' = "println_latest"
              /\ Called("read_installed", "ok")
         ELSE /\ current_version' = current_version
              /\ Fail("read_installed", buildInfo[install_path].kind)
    /\ UNCHANGED << texts, brokenBy, applied, run, homeSet, install_fresh, install_path, latest_version,
                    fs, pathExisted, touched, envRemoved >>

\* main:169  prog.println("Latest version: ..")?;
PrintlnLatest ==
    /\ pc = "println_latest"
    /\ \E ok \in BOOLEAN :
         IF ok
           THEN pc' = "println_current" /\ Called("println_latest", "ok")
           ELSE Fail("println_latest", "io")
    /\ UNCHANGED << texts, brokenBy, applied, run, homeSet, locals, fs, pathExisted, touched, envRemoved >>

\* main:170  prog.println("Current version: ..")?;
PrintlnCurrent ==
    /\ pc = "println_current"
    /\ \E ok \in BOOLEAN :
         IF ok
           THEN pc' = "compare" /\ Called("println_current", "ok")
           ELSE Fail("println_current", "io")
    /\ UNCHANGED << texts, brokenBy, applied, run, homeSet, locals, fs, pathExisted, touched, envRemoved >>

\* main:173  if latest_version > current_version { .. } else { .. }
Compare ==
    /\ pc = "compare"
    /\ pc' = IF NeedsUpdate(latest_version, current_version)
               THEN "println_update" ELSE "println_noupdate"
    /\ Called("compare", "ok")
    /\ UNCHANGED << texts, brokenBy, applied, run, homeSet, locals, fs, pathExisted, touched, envRemoved >>

\* main:174  prog.println("Update available")?;  then update_discord is called.
PrintlnUpdate ==
    /\ pc = "println_update"
    /\ \E ok \in BOOLEAN :
         IF ok
           THEN pc' = "tempdir" /\ Called("println_update", "ok")
           ELSE Fail("println_update", "io")
    /\ UNCHANGED << texts, brokenBy, applied, run, homeSet, locals, fs, pathExisted, touched, envRemoved >>

\* main:177  prog.println("No update available")?;
PrintlnNoUpdate ==
    /\ pc = "println_noupdate"
    /\ \E ok \in BOOLEAN :
         IF ok
           THEN pc' = "check_fresh" /\ Called("println_noupdate", "ok")
           ELSE Fail("println_noupdate", "io")
    /\ UNCHANGED << texts, brokenBy, applied, run, homeSet, locals, fs, pathExisted, touched, envRemoved >>

\* ------------------------------------------------------------- update_discord
\* An error return from update_discord: temp_dir goes out of scope and the
\* temporary directory is removed with everything in it (TempDir's drop).
FailInUpdate(op, e) ==
    /\ Fail(op, e)
    /\ tempDir' = "absent"

\* Faulty variant of TempDir: the install directory is created up front, before
\* the archive is requested.
TempDirAfterInstallDir ==
    /\ pc = "tempdir"
    /\ dirExists' = [dirExists EXCEPT ![install_path] = TRUE]
    /\ touched' = touched \cup {install_path}
    /\ \E ok \in BOOLEAN :
         IF ok
           THEN /\ tempDir' = "empty"
                /\ pc' = "request"
                /\ Called("tempdir", "ok")
           ELSE FailInUpdate("tempdir", "io")
    /\ UNCHANGED << texts, brokenBy, applied, run, homeSet, locals, buildInfo, binDirExists,
                    linkAt, pathExisted, envRemoved >>

\* update_discord:89  let temp_dir = tempdir()?;
TempDir ==
    /\ pc = "tempdir"
    /\ \E ok \in BOOLEAN :
         IF ok
           THEN /\ tempDir' = "empty"
                /\ pc' = "request"
                /\ Called("tempdir", "ok")
           ELSE FailInUpdate("tempdir", "io")
    /\ UNCHANGED << texts, brokenBy, applied, run, homeSet, locals, dirExists, buildInfo, binDirExists,
                    linkAt, pathExisted, touched, envRemoved >>

\* Faulty variant of Request: a failed request is tried a second time.
RequestRetrying ==
    /\ pc = "request"
    /\ \E ok \in BOOLEAN :
         IF ok
           THEN /\ tempDir' = tempDir
                /\ pc' = "file_create"
                /\ Called("request", "ok")
           ELSE IF calls["request"] = 0
                  THEN /\ tempDir' = tempDir
                       /\ pc' = pc
                       /\ Called("request", "network")
                  ELSE FailInUpdate("request", "network")
    /\ UNCHANGED << texts, brokenBy, applied, run, homeSet, locals, dirExists, buildInfo, binDirExists,
                    linkAt, pathExisted, touched, envRemoved >>

\* update_discord:96  let resp = reqwest::get(&download_url).await?;
Request ==
    /\ pc = "request"
    /\ \E ok \in BOOLEAN :
         IF ok
           THEN /\ tempDir' = tempDir
                /\ pc' = "file_create"
                /\ Called("request", "ok")
           ELSE FailInUpdate("request", "network")
    /\ UNCHANGED << texts, brokenBy, applied, run, homeSet, locals, dirExists, buildInfo, binDirExists,
                    linkAt, pathExisted, touched, envRemoved >>

\* update_discord:105  tokio::fs::File::create(&download_path).await?
FileCreate ==
    /\ pc = "file_create"
    /\ \E ok \in BOOLEAN :
         IF ok
           THEN /\ tempDir' = "empty_file"
                /\ pc' = "copy"
                /\ Called("file_create", "ok")
           ELSE FailInUpdate("file_create", "io")
    /\ UNCHANGED << texts, brokenBy, applied, run, homeSet, locals, dirExists, buildInfo, binDirExists,
                    linkAt, pathExisted, touched, envRemoved >>

\* Faulty variant of Copy: the archive is streamed to a file under the install path,
\* which is created for it, instead of into the temporary directory.
CopyIntoInstallPath ==
    /\ pc = "copy"
    /\ dirExists' = [dirExists EXCEPT ![install_path] = TRUE]
    /\ touched' = touched \cup {install_path}
    /\ \E ok \in BOOLEAN :
         IF ok
           THEN /\ tempDir' = "archive"
                /\ pc' = "create_dir"
                /\ Called("copy", "ok")
           ELSE FailInUpdate("copy", "io")
    /\ UNCHANGED << texts, brokenBy, applied, run, homeSet, locals, buildInfo, binDirExists, linkAt,
                    pathExisted, envRemoved >>

\* update_discord:106  tokio::io::copy(&mut download_stream, &mut download_file)
\* .await?;  the bytes go to the file in the temporary directory. A failure
\* leaves a partial file there, which goes with the directory.
Copy ==
    /\ pc = "copy"
    /\ \E ok \in BOOLEAN :
         IF ok
           THEN /\ tempDir' = "archive"
                /\ pc' = "create_dir"
                /\ Called("copy", "ok")
           ELSE FailInUpdate("copy", "io")
    /\ UNCHANGED << texts, brokenBy, applied, run, homeSet, locals, dirExists, buildInfo, binDirExists,
                    linkAt, pathExisted, touched, envRemoved >>

\* update_discord:110  tokio::fs::create_dir_all(&install_path).await?;
\* A failure can leave some of the missing ancestors created.
CreateDir ==
    /\ pc = "create_dir"
    /\ \E ok \in BOOLEAN :
         IF ok
           THEN /\ dirExists' = [dirExists EXCEPT ![install_path] = TRUE]
                /\ binDirExists' = (binDirExists \/ install_path = DefaultPath)
                /\ touched' = IF dirExists[install_path]
                                THEN touched ELSE touched \cup {install_path}
                /\ tempDir' = tempDir
                /\ pc' = "tar"
                /\ Called("create_dir", "ok")
           ELSE /\ ~dirExists[install_path]
                /\ dirExists' = dirExists
                /\ \E made \in BOOLEAN :
                     binDirExists' =
                        (binDirExists \/ (made /\ install_path = DefaultPath))
                /\ touched' = touched
                /\ FailInUpdate("create_dir", "io")
    /\ UNCHANGED << texts, brokenBy, applied, run, homeSet, locals, buildInfo, linkAt, pathExisted,
                    envRemoved >>

\* The ways tar_xf fails: the command cannot be spawned, or tar exits non-zero.
TarErrors == {"spawn", "exit_status"}

\* What build_info.json is after tar ran on the archive of version v, given
\* what it was: written from the archive, or left as it was (the archive has
\* none, or tar stopped before it).
ExtractedInfos(old, v) == {old} \cup ArchiveInfos(v)

\* The paths left without a readable build_info.json by a failed extraction
\* of a fresh install (update_discord:110 created the directory, 115 failed),
\* after tar ran on install_path and left build_info.json as i.
BrokenAfterTar(failed, i) ==
    IF i.kind = "ok"
      THEN brokenBy \ {install_path}
      ELSE IF failed /\ install_fresh
             THEN brokenBy \cup {install_path}
             ELSE brokenBy

\* Faulty variant of Tar: the temporary directory outlives a failed extraction.
TarLeakingTempDir ==
    /\ pc = "tar"
    /\ \/ /\ \E i \in ExtractedInfos(buildInfo[install_path], latest_version) :
               /\ buildInfo' = [buildInfo EXCEPT ![install_path] = i]
               /\ brokenBy' = BrokenAfterTar(FALSE, i)
          /\ touched' = touched \cup {install_path}
          /\ tempDir' = "absent"
          /\ pc' = "check_fresh"
          /\ Called("tar", "ok")
       \/ /\ \E e \in TarErrors :
               /\ buildInfo' = buildInfo
               /\ brokenBy' = BrokenAfterTar(TRUE, buildInfo[install_path])
               /\ touched' = touched
               /\ Fail("tar", e)
               /\ tempDir' = tempDir
    /\ UNCHANGED << texts, applied, run, homeSet, locals, dirExists, binDirExists, linkAt,
                    pathExisted, envRemoved >>

\* Faulty variant of Tar: a failed extraction is rolled back; the install
\* directory goes back to what it was before update_discord created it.
TarRollingBack ==
    /\ pc = "tar"
    /\ \/ /\ \E i \in ExtractedInfos(buildInfo[install_path], latest_version) :
               /\ buildInfo' = [buildInfo EXCEPT ![install_path] = i]
               /\ brokenBy' = BrokenAfterTar(FALSE, i)
          /\ dirExists' = dirExists
          /\ touched' = touched \cup {install_path}
          /\ tempDir' = "absent"
          /\ pc' = "check_fresh"
          /\ Called("tar", "ok")
       \/ /\ \E e \in TarErrors :
               /\ buildInfo' = buildInfo
               /\ brokenBy' = BrokenAfterTar(TRUE, buildInfo[install_path])
               /\ dirExists' = [dirExists EXCEPT ![install_path] = ~install_fresh]
               /\ touched' = touched
               /\ FailInUpdate("tar", e)
    /\ UNCHANGED << texts, applied, run, homeSet, locals, binDirExists, linkAt,
                    pathExisted, envRemoved >>

\* update_discord:115  tar_xf(&download_path, &install_path).await?;  (66-80)
\* and the return of update_discord (118-119), where temp_dir is dropped.
\* A non-zero exit can leave part of the archive extracted.
Tar ==
    /\ pc = "tar"
    /\ \/ /\ \E i \in ExtractedInfos(buildInfo[install_path], latest_version) :
               /\ buildInfo' = [buildInfo EXCEPT ![install_path] = i]
               /\ brokenBy' = BrokenAfterTar(FALSE, i)
          /\ touched' = touched \cup {install_path}
          /\ tempDir' = "absent"
          /\ pc' = "check_fresh"
          /\ Called("tar", "ok")
       \/ /\ \E e \in TarErrors :
               /\ IF e = "spawn"
                    THEN /\ buildInfo' = buildInfo
                         /\ touched' = touched
                         /\ brokenBy' =
                              BrokenAfterTar(TRUE, buildInfo[install_path])
                    ELSE /\ \E i \in ExtractedInfos(buildInfo[install_path],
                                                    latest_version) :
                              /\ buildInfo' =
                                   [buildInfo EXCEPT ![install_path] = i]
                              /\ brokenBy' = BrokenAfterTar(TRUE, i)
                         /\ touched' = touched \cup {install_path}
               /\ FailInUpdate("tar", e)
    /\ UNCHANGED << texts, applied, run, homeSet, locals, dirExists, binDirExists, linkAt,
                    pathExisted, envRemoved >>

\* ------------------------------------------------------------- the symlink
\* main:181-182  if install_fresh { .. &default_discord_path()? .. }
CheckFresh ==
    /\ pc = "check_fresh"
    /\ IF ~install_fresh
         THEN pc' = "Done" /\ UNCHANGED << calls, outcome >>
         ELSE IF homeSet
                THEN pc' = "mkdir_bin" /\ Called("symlink_target", "ok")
                ELSE Fail("symlink_target", "home_unset")
    /\ UNCHANGED << texts, brokenBy, applied, run, homeSet, locals, fs, pathExisted, touched, envRemoved >>

\* create_home_bin_symlink:134-136  home_dir()?; create_dir_all(&bin_dir).await?;
MkdirBin ==
    /\ pc = "mkdir_bin"
    /\ \E ok \in BOOLEAN :
         IF ok /\ homeSet
           THEN /\ binDirExists' = TRUE
                /\ pc' = "symlink"
                /\ Called("mkdir_bin", "ok")
           ELSE /\ ~binDirExists \/ ~homeSet
                /\ binDirExists' = binDirExists
                /\ Fail("mkdir_bin", IF homeSet THEN "io" ELSE "home_unset")
    /\ UNCHANGED << texts, brokenBy, applied, run, homeSet, locals, dirExists, buildInfo, linkAt, tempDir,
                    pathExisted, touched, envRemoved >>

\* Faulty variant of Symlink: the link is made to the run's install path.
SymlinkToInstallPath ==
    /\ pc = "symlink"
    /\ IF linkAt # "none"
         THEN linkAt' = linkAt /\ Fail("symlink", "exists")
         ELSE linkAt' = install_path /\ pc' = "Done" /\ Called("symlink", "ok")
    /\ UNCHANGED << texts, brokenBy, applied, run, homeSet, locals, dirExists, buildInfo, binDirExists,
                    tempDir, pathExisted, touched, envRemoved >>

\* Faulty variant of Symlink: the result of symlink is discarded and main
\* returns Ok(()) whether or not the link was made.
SymlinkIgnoringError ==
    /\ pc = "symlink"
    /\ pc' = "Done"
    /\ IF linkAt # "none"
         THEN linkAt' = linkAt /\ Called("symlink", "exists")
         ELSE linkAt' = DefaultPath /\ Called("symlink", "ok")
    /\ UNCHANGED << texts, brokenBy, applied, run, homeSet, locals, dirExists, buildInfo, binDirExists,
                    tempDir, pathExisted, touched, envRemoved >>

\* Faulty variant of Symlink: an existing entry at <home>/bin/discord is
\* replaced (as `ln -sf` would) instead of making symlink fail.
SymlinkOverwriting ==
    /\ pc = "symlink"
    /\ \E ok \in BOOLEAN :
         IF ok
           THEN /\ linkAt' = DefaultPath
                /\ pc' = "Done"
                /\ Called("symlink", "ok")
           ELSE linkAt' = linkAt /\ Fail("symlink", "io")
    /\ UNCHANGED << texts, brokenBy, applied, run, homeSet, locals, dirExists, buildInfo, binDirExists,
                    tempDir, pathExisted, touched, envRemoved >>

\* create_home_bin_symlink:137  tokio::fs::symlink(source, bin_dir.join(
\* "discord")).await?;  and main:185 Ok(()). symlink(2) fails when something is
\* already at the link's path.
Symlink ==
    /\ pc = "symlink"
    /\ IF linkAt # "none"
         THEN linkAt' = linkAt /\ Fail("symlink", "exists")
         ELSE \E ok \in BOOLEAN :
                IF ok
                  THEN /\ linkAt' = DefaultPath
                       /\ pc' = "Done"
                       /\ Called("symlink", "ok")
                  ELSE linkAt' = linkAt /\ Fail("symlink", "io")
    /\ UNCHANGED << texts, brokenBy, applied, run, homeSet, locals, dirExists, buildInfo, binDirExists,
                    tempDir, pathExisted, touched, envRemoved >>

\* ------------------------------------------------------------- runs
\* The process has exited.
Terminal == pc \in {"Done", "Failed"}

\* The program is run again (by the user or cron) on the file system the
\* previous run left.
\* The run that ends here applied an update: update_discord returned Ok
\* (main:175), main returned Ok(()) (185) and the extracted build_info.json
\* reports the version that was downloaded.
AppliedUpdate ==
    /\ pc = "Done"
    /\ outcome["tar"] = "ok"
    /\ buildInfo[install_path] = Info("ok", latest_version)

Restart ==
    /\ Terminal
    /\ run < MaxRuns
    /\ run' = run + 1
    /\ homeSet' \in BOOLEAN
    /\ RunStart
    /\ applied' = IF AppliedUpdate
                     THEN [path |-> install_path, version |-> latest_version]
                     ELSE NoApplied
    /\ UNCHANGED << texts, brokenBy, dirExists, buildInfo, binDirExists, linkAt >>

Next ==
    \/ ResolveDefault
    \/ Locate
    \/ PrintlnFallback
    \/ PrintlnFound
    \/ EnvRemoveInstall
    \/ FetchLatest
    \/ TryExists
    \/ ReadInstalled
    \/ PrintlnLatest
    \/ PrintlnCurrent
    \/ Compare
    \/ PrintlnUpdate
    \/ PrintlnNoUpdate
    \/ TempDir
    \/ Request
    \/ FileCreate
    \/ Copy
    \/ CreateDir
    \/ Tar
    \/ CheckFresh
    \/ MkdirBin
    \/ Symlink
    \/ Restart

Spec == Init /\ [][Next]_vars

\* One step of the running program (every action of main; not the next run and
\* not the removal of the install by someone else).
ProgramStep ==
    \/ ResolveDefault
    \/ Locate
    \/ PrintlnFallback
    \/ PrintlnFound
    \/ FetchLatest
    \/ TryExists
    \/ ReadInstalled
    \/ PrintlnLatest
    \/ PrintlnCurrent
    \/ Compare
    \/ PrintlnUpdate
    \/ PrintlnNoUpdate
    \/ TempDir
    \/ Request
    \/ FileCreate
    \/ Copy
    \/ CreateDir
    \/ Tar
    \/ CheckFresh
    \/ MkdirBin
    \/ Symlink

\* Every awaited operation returns: main is a single task whose awaits are
\* sequential, so the program takes its next step whenever it has one.
FairSpec == Spec /\ WF_vars(ProgramStep)

\* ------------------------------------------------------------- version order
\* The versions whose strings are compared.
OrderVersions ==
    { VerB(ma, mi, pa, pr, bu) :
        ma \in 0..MaxNum, mi \in 0..MaxNum, pa \in 0..MaxNum,
        pr \in 0..MaxTag, bu \in 0..MaxTag }

\* The remote payload and build_info.json each hold the string of a version.
InitOrder ==
    /\ pc = "parse"
    /\ run = 1
    /\ homeSet = TRUE
    /\ install_fresh = FALSE
    /\ install_path = DefaultPath
    /\ latest_version = Unassigned
    /\ current_version = Unassigned
    /\ dirExists = [p \in Paths |-> p = DefaultPath]
    /\ buildInfo = [p \in Paths |-> MissingInfo]
    /\ binDirExists = TRUE
    /\ linkAt = "none"
    /\ tempDir = "absent"
    /\ calls = [op \in OpNames |-> 0]
    /\ outcome = [op \in OpNames |-> "none"]
    /\ pathExisted = "yes"
    /\ touched = {}
    /\ envRemoved = FALSE
    /\ texts \in { << VersionText(l), VersionText(c) >> :
                      l \in OrderVersions, c \in OrderVersions }
    /\ brokenBy = {}
    /\ applied = NoApplied

\* get_latest_discord_version:36-40 and get_installed_version:61-62: both
\* payloads are deserialized as VersionPayload, whose version field is parsed
\* from its string.
ParsePayloads ==
    /\ pc = "parse"
    /\ latest_version' = ParseVersion(texts[1])
    /\ current_version' = ParseVersion(texts[2])
    /\ pc' = "parsed"
    /\ UNCHANGED << texts, brokenBy, applied, run, homeSet, install_fresh, install_path, fs, calls,
                    outcome, pathExisted, touched, envRemoved >>

\* main:173  the update decision on the two parsed versions.
DecideUpdate ==
    /\ pc = "parsed"
    /\ pc' = IF NeedsUpdate(latest_version, current_version)
               THEN "update" ELSE "noupdate"
    /\ UNCHANGED << texts, brokenBy, applied, run, homeSet, locals, fs, calls, outcome,
                    pathExisted, touched, envRemoved >>

NextOrder ==
    \/ ParsePayloads
    \/ DecideUpdate

SpecOrder == InitOrder /\ [][NextOrder]_vars

\* Exit status of the process: main returns Result<()>, so Ok(()) exits with 0
\* and Err (or the panic of the fallback closure) with a non-zero status.
ExitStatus ==
    IF pc = "Done" THEN "zero"
    ELSE IF pc = "Failed" THEN "nonzero"
    ELSE "running"

\* ============================================================= claims
\* update_discord was entered: its first statement, tempdir(), was attempted.
UpdateInvoked == calls["tempdir"] > 0

\* The operations of update_discord: download, then install.
UpdateOps == {"tempdir", "request", "file_create", "copy", "create_dir", "tar"}

\* The operations of create_home_bin_symlink.
SymlinkOps == {"mkdir_bin", "symlink"}

\* create_home_bin_symlink was entered.
SymlinkAttempted == pc \in SymlinkOps \/ calls["mkdir_bin"] > 0

\* C1: in every run that reaches the version comparison, update_discord is
\* invoked if and only if latest > current; when latest <= current no
\* download or install operation is called.
C1_UpdateIffNewer ==
    calls["compare"] > 0 =>
        /\ UpdateInvoked => VersionLess(current_version, latest_version)
        /\ ~VersionLess(current_version, latest_version) =>
               \A op \in UpdateOps : calls[op] = 0
        /\ (Terminal /\ VersionLess(current_version, latest_version)) =>
               UpdateInvoked

\* One of the status messages of main:169-177 could not be printed.
StatusPrintFailed ==
    \E op \in {"println_latest", "println_current", "println_update",
               "println_noupdate"} : Failed(op)

\* What is left of C1 in the code: the same statement for the runs in which
\* the "Update available" message is printed.
C1_ExceptPrintFailure ==
    calls["compare"] > 0 =>
        /\ UpdateInvoked => VersionLess(current_version, latest_version)
        /\ ~VersionLess(current_version, latest_version) =>
               \A op \in UpdateOps : calls[op] = 0
        /\ (Terminal /\ VersionLess(current_version, latest_version)
               /\ ~Failed("println_update")) => UpdateInvoked

\* C2: when the install path does not exist at the existence check, the current
\* version is 0.0.0 and install_fresh is true, whether or not locate succeeded;
\* when it exists, install_fresh stays false and the current version is the one
\* in its build_info.json.
C2_FreshIffAbsent ==
    /\ pathExisted = "unknown" => ~install_fresh
    /\ pathExisted = "no" => install_fresh /\ current_version = ZeroVersion
    /\ pathExisted = "yes" =>
          /\ ~install_fresh
          /\ outcome["read_installed"] = "none" => current_version = Unassigned
          /\ (outcome["read_installed"] = "ok" /\ calls["tar"] = 0) =>
                buildInfo[install_path] = Info("ok", current_version)

\* C2 witness: locate succeeded, the path was gone at the check, and the run
\* went on as a fresh install from version 0.0.0.
C2_Witness ==
    /\ outcome["locate"] = "ok"
    /\ pathExisted = "no"
    /\ install_fresh
    /\ pc = "compare"

\* The archive request, the creation of the temp file or the streaming copy
\* failed.
DownloadFailed == Failed("request") \/ Failed("file_create") \/ Failed("copy")

\* C3: a download-phase failure ends the run in Failed with the install path
\* neither created nor written and with no temporary directory left; until the
\* download has completed the run writes nothing outside the temp directory.
C3_DownloadFailureClean ==
    /\ DownloadFailed =>
          /\ pc = "Failed"
          /\ tempDir = "absent"
          /\ touched = {}
          /\ install_fresh => ~dirExists[install_path]
          /\ ~install_fresh =>
                buildInfo[install_path] = Info("ok", current_version)
    /\ pc \in {"request", "file_create", "copy", "create_dir"} => touched = {}

\* C3 witness: the streaming copy of a fresh install failed.
C3_Witness ==
    /\ Failed("copy")
    /\ install_fresh
    /\ pc = "Failed"

\* C4: a run with install_fresh that reaches Done ends with a symlink at
\* <home>/bin/discord whose target is the default install path.
C4_FreshDoneHasSymlink ==
    (pc = "Done" /\ install_fresh) =>
        /\ linkAt = DefaultPath
        /\ binDirExists
        /\ outcome["symlink"] = "ok"

\* C4 witness: a fresh install was extracted and the run reached Done.
C4_Witness ==
    /\ pc = "Done"
    /\ install_fresh
    /\ outcome["tar"] = "ok"

\* C5: symlink creation is attempted only with install_fresh set and only after
\* the download and the install of that run completed, never after the
\* no-update branch.
C5_SymlinkOnlyAfterInstall ==
    SymlinkAttempted =>
        /\ install_fresh
        /\ outcome["tar"] = "ok"
        /\ calls["println_noupdate"] = 0

\* What is left of C5 in the code: the symlink is attempted only with
\* install_fresh set, after a completed install or when the latest version is
\* not above 0.0.0.
C5_ExceptLatestZero ==
    SymlinkAttempted =>
        /\ install_fresh
        /\ outcome["tar"] = "ok" \/ ~VersionLess(ZeroVersion, latest_version)

\* C6: a failure of locate_installed_discord is not fatal. The locate step
\* never ends the run, the install path becomes the default path, the run goes
\* on to version resolution, and a run in which locate failed is Failed only
\* because some other operation failed.
C6_LocateFailureAbsorbed ==
    Failed("locate") =>
        /\ pc = "Failed" => \E op \in OpNames \ {"locate"} : Failed(op)
        /\ outcome["println_fallback"] = "ok" => install_path = DefaultPath
        /\ calls["fetch_latest"] > 0 => install_path = DefaultPath
        /\ (outcome["println_fallback"] = "ok" /\ outcome["println_found"] = "ok")
              => (pc = "fetch_latest" \/ calls["fetch_latest"] = 1)

\* C6 witness: locate failed and the run resolved versions on the default path
\* and reached Done.
C6_Witness ==
    /\ Failed("locate")
    /\ install_path = DefaultPath
    /\ outcome["fetch_latest"] = "ok"
    /\ pc = "Done"

\* C7: locate failure is the only absorbed error. When any other operation
\* fails the run is Failed and no operation that comes later in the pipeline
\* has been executed.
C7_OtherFailuresFatal ==
    /\ \A op \in OpNames \ {"locate"} :
          Failed(op) =>
             /\ pc = "Failed"
             /\ \A later \in OpNames :
                   OpIndex(later) > OpIndex(op) => calls[later] = 0
    /\ pc = "Failed" => \E op \in OpNames \ {"locate"} : Failed(op)

\* C7 witness: extraction of a fresh install failed; the run is Failed and the
\* symlink was not attempted.
C7_Witness ==
    /\ Failed("tar")
    /\ install_fresh
    /\ pc = "Failed"
    /\ calls["symlink"] = 0

\* An existing install whose version was read and is newer than the latest.
InstalledIsNewer ==
    /\ pathExisted = "yes"
    /\ outcome["read_installed"] = "ok"
    /\ VersionLess(latest_version, current_version)

\* C8: an existing install with current > latest is a no-op and not an error:
\* the run reaches Done without download, extraction, directory creation or
\* symlink creation.
C8_NewerInstalledIsNoOp ==
    InstalledIsNewer =>
        /\ \A op \in UpdateOps \cup SymlinkOps : calls[op] = 0
        /\ touched = {}
        /\ Terminal => pc = "Done"

\* What is left of C8 in the code: the same statement for the runs in which
\* every status message is printed.
C8_ExceptPrintFailure ==
    InstalledIsNewer =>
        /\ \A op \in UpdateOps \cup SymlinkOps : calls[op] = 0
        /\ touched = {}
        /\ (Terminal /\ ~StatusPrintFailed) => pc = "Done"

\* The positions of update_discord at which the temporary directory exists.
InUpdate == pc \in {"request", "file_create", "copy", "create_dir", "tar"}

\* C9: the temporary directory and the archive in it are removed on every exit
\* of update_discord (success, download failure, create_dir_all failure,
\* extraction failure); no terminal state has a temporary directory.
C9_TempDirRemoved ==
    /\ ~InUpdate => tempDir = "absent"
    /\ Terminal => tempDir = "absent"

\* C9 witness: extraction failed after the archive was downloaded into the
\* temporary directory.
C9_Witness ==
    /\ outcome["copy"] = "ok"
    /\ Failed("tar")
    /\ pc = "Failed"

\* C10: no retries. In one run each operation is attempted at most once, and
\* an operation that failed was attempted exactly once.
C10_NoRetries ==
    \A op \in OpNames :
        /\ calls[op] <= 1
        /\ outcome[op] = "none" <=> calls[op] = 0

\* C10 witness: a run in which the archive request was attempted and failed.
C10_Witness ==
    /\ Failed("request")
    /\ calls["request"] = 1
    /\ pc = "Failed"

\* An operation other than locate failed in this run: a fatal failure.
FatalFailure == \E op \in OpNames \ {"locate"} : Failed(op)

\* C11: provided every external operation returns, every run eventually
\* reaches a terminal state, Done or Failed, (the next run starts only from a
\* terminal state) and stays in it; the exit status is
\* 0 exactly when the run reaches Done, and that is exactly when no fatal
\* failure occurred; it is non-zero exactly when one did.
C11_TerminatesWithStatus ==
    /\ ~Terminal ~> Terminal
    /\ [][run' # run => Terminal]_vars
    /\ [][(Terminal /\ run' = run) => pc' = pc]_vars
    /\ [](Terminal => /\ (ExitStatus = "zero") = (pc = "Done")
                       /\ (ExitStatus = "zero") = ~FatalFailure
                       /\ (ExitStatus = "nonzero") = FatalFailure)
    /\ [](~Terminal => ~FatalFailure /\ ExitStatus = "running")

\* C11 witness: a run that applied an update exited with status 0.
C11_Witness ==
    /\ pc = "Done"
    /\ outcome["tar"] = "ok"
    /\ ExitStatus = "zero"

\* C12: when something already is at <home>/bin/discord as the symlink step of
\* a fresh install runs, symlink fails, the existing link stays as it is, the
\* run ends Failed after that single attempt, and what the run extracted stays.
C12_ExistingLinkIsFatal ==
    /\ [][(pc = "symlink" /\ linkAt # "none") =>
             /\ pc' = "Failed"
             /\ linkAt' = linkAt
             /\ outcome'["symlink"] = "exists"
             /\ calls'["symlink"] = 1
             /\ dirExists' = dirExists /\ buildInfo' = buildInfo]_vars
    /\ [](outcome["symlink"] = "exists" =>
             pc = "Failed" /\ linkAt # "none" /\ install_fresh)

\* C12 witness: a fresh install was downloaded and extracted, and the run
\* failed on a link that was already there.
C12_Witness ==
    /\ pc = "Failed"
    /\ outcome["symlink"] = "exists"
    /\ outcome["tar"] = "ok"
    /\ linkAt = OtherPath
    /\ dirExists[install_path]

\* The status messages that main sends to the display sink with println.
PrintOps ==
    {"println_fallback", "println_found", "println_latest", "println_current",
     "println_update", "println_noupdate"}

\* C13: progress output is cosmetic. Whether the sink accepts or fails a
\* message, the run goes on the same way: a run ends Failed only because a
\* pipeline operation failed, never because a message could not be shown.
C13_ProgressIsCosmetic ==
    /\ \A op \in PrintOps : Failed(op) => pc # "Failed"
    /\ pc = "Failed" => \E op \in OpNames \ (PrintOps \cup {"locate"}) : Failed(op)

\* What is left of C13 in the code: the messages change no local and nothing
\* on the file system, and an accepted message never ends the run.
C13_AcceptedPrintIsCosmetic ==
    [][(pc \in PrintOps /\ pc' # pc /\ pc' # "Failed") =>
          /\ UNCHANGED << install_fresh, latest_version, current_version, fs >>
          /\ \E op \in PrintOps : outcome'[op] = "ok" /\ outcome[op] = "none"]_vars

\* C14: with HOME unset the run fails at once: it is Failed after resolving the
\* default path, before locate, before any request or download and without
\* writing anything, also when an installation exists that locate would find.
C14_HomeUnsetIsFatal ==
    /\ [](~homeSet /\ pc # "default_path" =>
             /\ pc = "Failed"
             /\ outcome["default_path"] = "home_unset"
             /\ \A op \in OpNames \ {"default_path"} : calls[op] = 0
             /\ touched = {}
             /\ tempDir = "absent"
             /\ install_path = NoPath)
    /\ [][(~homeSet /\ run' = run) =>
             UNCHANGED << dirExists, buildInfo, binDirExists, linkAt >>]_vars

\* C14 witness: HOME is unset, an installation with a readable version exists
\* outside the home directory, and the run is Failed.
C14_Witness ==
    /\ ~homeSet
    /\ pc = "Failed"
    /\ dirExists[OtherPath]
    /\ buildInfo[OtherPath].kind = "ok"

\* The pre-release tag written in the version string s (0: none).
TextPre(s) == IF Len(s) >= 5 /\ s[4] = Hyphen THEN s[5] ELSE 0

\* Semantic-version precedence of two version strings: major, minor and patch
\* compare numerically, a pre-release comes before its release, and build
\* metadata is ignored.
SemverPrecedes(x, y) ==
    \/ x[1] < y[1]
    \/ x[1] = y[1] /\ x[2] < y[2]
    \/ x[1] = y[1] /\ x[2] = y[2] /\ x[3] < y[3]
    \/ x[1] = y[1] /\ x[2] = y[2] /\ x[3] = y[3]
         /\ TextPre(x) # 0 /\ (TextPre(y) = 0 \/ TextPre(x) < TextPre(y))

\* C15: for all version strings a and b, parse(a) < parse(b) exactly when
\* semver precedence ranks a before b (build metadata does not count), so the
\* update is decided exactly when the installed string precedes the latest.
C15_OrderIsSemverPrecedence ==
    /\ pc \in {"parsed", "update", "noupdate"} =>
          /\ VersionLess(current_version, latest_version)
                = SemverPrecedes(texts[2], texts[1])
          /\ VersionLess(latest_version, current_version)
                = SemverPrecedes(texts[1], texts[2])
    /\ pc = "update" => SemverPrecedes(texts[2], texts[1])
    /\ pc = "noupdate" => ~SemverPrecedes(texts[2], texts[1])

\* What is left of C15 in the code: parsing gives back the version that was
\* written, and the order is semver precedence for strings that do not differ
\* in build metadata alone; those are ordered by their build metadata.
C15_ExceptBuildMetadata ==
    pc \in {"parsed", "update", "noupdate"} =>
        /\ VersionText(latest_version) = texts[1]
        /\ VersionText(current_version) = texts[2]
        /\ SemverPrecedes(texts[2], texts[1])
              => VersionLess(current_version, latest_version)
        /\ (VersionLess(current_version, latest_version)
               /\ ~SemverPrecedes(texts[2], texts[1]))
              => /\ ~SemverPrecedes(texts[1], texts[2])
                 /\ current_version.build < latest_version.build

\* op has been attempted and has returned Ok.
Completed(op) == outcome[op] = "ok"

\* C16: the steps of a run happen one after another in the order locate, fetch
\* latest, check the install path and read the current version, download to the
\* temp file, create the install directory, extract, create the symlink: a step
\* has started only if the steps before it that the run took have completed,
\* and the install path is neither created nor written before the download has
\* completed.
C16_StepsInOrder ==
    /\ calls["fetch_latest"] > 0 => outcome["locate"] # "none"
    /\ calls["try_exists"] > 0 => Completed("fetch_latest")
    /\ calls["read_installed"] > 0 => Completed("try_exists")
    /\ calls["tempdir"] > 0 =>
          /\ Completed("try_exists")
          /\ calls["read_installed"] > 0 => Completed("read_installed")
    /\ calls["request"] > 0 => Completed("tempdir")
    /\ calls["file_create"] > 0 => Completed("request")
    /\ calls["copy"] > 0 => Completed("file_create")
    /\ calls["create_dir"] > 0 => Completed("copy")
    /\ calls["tar"] > 0 => Completed("create_dir")
    /\ SymlinkAttempted =>
          /\ Completed("try_exists")
          /\ calls["tempdir"] > 0 => Completed("tar")
    /\ calls["symlink"] > 0 => Completed("mkdir_bin")
    /\ touched # {} => Completed("copy")
    /\ ~Completed("copy") =>
          /\ pathExisted = "no" => ~dirExists[install_path]
          /\ Completed("read_installed") =>
                buildInfo[install_path] = Info("ok", current_version)

\* C16 witness: a run went through every step, from a failed locate to the
\* symlink.
C16_Witness ==
    /\ pc = "Done"
    /\ \A op \in {"fetch_latest", "try_exists", "tempdir", "request",
                   "file_create", "copy", "create_dir", "tar", "mkdir_bin",
                   "symlink"} : Completed(op)

\* C17: a failed extraction is not rolled back. The run is Failed, it does
\* nothing more to the install path, and the install directory created for the
\* extraction, with whatever tar wrote into it, is still there.
C17_FailedExtractionStays ==
    /\ [](Failed("tar") =>
             /\ pc = "Failed"
             /\ Completed("create_dir")
             /\ dirExists[install_path]
             /\ install_fresh => install_path \in touched
             /\ \A op \in SymlinkOps \cup {"symlink_target"} : calls[op] = 0)
    /\ [][(pc = "tar" /\ pc' = "Failed") =>
             /\ dirExists' = dirExists
             /\ buildInfo'[install_path] \in
                   ExtractedInfos(buildInfo[install_path], latest_version)]_vars
    /\ [][(Failed("tar") /\ run' = run) =>
             UNCHANGED << dirExists, buildInfo, binDirExists, linkAt >>]_vars

\* C17 witness: the extraction of a fresh install failed after tar had written
\* build_info.json; the new directory and the file are on disk in Failed.
C17_Witness ==
    /\ pc = "Failed"
    /\ outcome["tar"] = "exit_status"
    /\ pathExisted = "no"
    /\ dirExists[install_path]
    /\ buildInfo[install_path] = Info("ok", latest_version)

\* C18: when nobody changes the file system between locate and the existence
\* check, every run that executes the symlink step has the default path as its
\* install path, so the link made points at the run's install directory.
C18_SymlinkRunsUseDefaultPath ==
    (SymlinkAttempted /\ ~envRemoved) =>
        /\ install_path = DefaultPath
        /\ Failed("locate")
        /\ Completed("symlink") => linkAt = install_path

\* C18 witness: a fresh install was extracted into the default path and linked.
C18_Witness ==
    /\ Completed("symlink")
    /\ Completed("tar")
    /\ ~envRemoved
    /\ install_path = DefaultPath
    /\ linkAt = DefaultPath

\* The install directory p exists and its resources/build_info.json is missing
\* or unparsable.
Unreadable(p) == dirExists[p] /\ buildInfo[p].kind # "ok"

\* The run resolved the path p and has not extracted anything into it.
ResolvedUntouched(p) == install_path = p /\ calls["tar"] = 0

\* C19: a run whose resolved install path exists but has no readable
\* build_info.json stops at get_installed_version: it ends Failed, downloads and
\* extracts nothing, writes nothing and has install_fresh false.  Hence a path
\* that a failed fresh extraction left without a readable build_info.json stays
\* that way in every later run, and every later run that resolves it gets no
\* further than the version resolution and never creates the symlink.
C19_UnreadableInstallStaysBroken ==
    /\ (pathExisted = "yes" /\ Unreadable(install_path) /\ calls["tar"] = 0) =>
          /\ pc \in {"read_installed", "Failed"}
          /\ pc = "Failed" => Failed("read_installed")
          /\ ~install_fresh
          /\ \A op \in UpdateOps \cup SymlinkOps : calls[op] = 0
          /\ touched = {}
    /\ \A p \in brokenBy :
          /\ Unreadable(p)
          /\ ResolvedUntouched(p) =>
                /\ pc # "Done"
                /\ pc \in {"println_fallback", "println_found", "fetch_latest",
                           "try_exists", "read_installed", "Failed"}
                /\ ~install_fresh
                /\ \A op \in UpdateOps \cup SymlinkOps : calls[op] = 0
                /\ touched = {}
                /\ pathExisted # "no"

\* C19 witness: a later run resolved the path that an earlier fresh install
\* left half extracted, failed reading its version, and there is no symlink.
C19_Witness ==
    /\ run > 1
    /\ install_path \in brokenBy
    /\ calls["tar"] = 0
    /\ pc = "Failed"
    /\ Failed("read_installed")
    /\ linkAt = "none"

\* The previous run applied an update to applied.version at applied.path and
\* reached Done; this run resolved the same path, found it on disk and was
\* given the same latest version.
SameUpdateAgain ==
    /\ applied # NoApplied
    /\ install_path = applied.path
    /\ outcome["fetch_latest"] = "ok"
    /\ latest_version = applied.version
    /\ pathExisted = "yes"

\* C20: the update is idempotent across runs: the run after one that applied
\* an update to v and reached Done, resolving the same install path and given
\* the same latest version v, downloads nothing, extracts nothing, creates no
\* symlink and reaches Done.
C20_UpdateIsIdempotent ==
    SameUpdateAgain =>
        /\ \A op \in UpdateOps \cup SymlinkOps : calls[op] = 0
        /\ touched = {}
        /\ outcome["read_installed"] = "ok" => current_version = applied.version
        /\ Terminal => pc = "Done"

\* What is left of C20 in the code: the same statement for the runs in which
\* every status message is printed.
C20_ExceptPrintFailure ==
    SameUpdateAgain =>
        /\ \A op \in UpdateOps \cup SymlinkOps : calls[op] = 0
        /\ touched = {}
        /\ outcome["read_installed"] = "ok" => current_version = applied.version
        /\ ~Failed("read_installed")
        /\ (Terminal /\ ~StatusPrintFailed) => pc = "Done"

\* A second run after an applied update ended Done without doing anything.
C20_SecondRunDone ==
    /\ SameUpdateAgain
    /\ run > 1
    /\ pc = "Done"
    /\ outcome["println_noupdate"] = "ok"

====
